---- MODULE Spec2Model ----
(***************************************************************************)
(* extractDemHeight: look up one elevation sample of a GeoTIFF DEM by      *)
(* latitude / longitude (src/src/extractDemHeight.c).                      *)
(*                                                                         *)
(* Numbers.  Lat and Long are C floats (single precision).  Every float    *)
(* of magnitude in [4, 256) is a multiple of 2^-21, so a float is held     *)
(* here as an integer count of 2^-21 degrees.  Command-line texts and the  *)
(* box corners written in main() are decimals with eight fractional        *)
(* digits, held as [neg, deg, e8]; a double holds such a decimal to within *)
(* 2^-45, far below the spacing of the floats it is compared with, so the  *)
(* double comparisons of main() are computed exactly on the decimal.       *)
(***************************************************************************)
EXTENDS Integers, Sequences, FiniteSets, TLC

(***************************************************************************)
(* Bounds of the exploration.                                              *)
(***************************************************************************)
MaxCloseCalls == 3

(***************************************************************************)
(* Single-precision arithmetic.                                            *)
(***************************************************************************)
U == 2097152

RECURSIVE Log2(_)
Log2(n) == IF n < 2 THEN 0 ELSE 1 + Log2(n \div 2)

RECURSIVE Pow2(_)
Pow2(n) == IF n = 0 THEN 1 ELSE 2 * Pow2(n - 1)

\* number of fractional bits of a float whose integer part is deg (24-bit significand)
FracBits(deg) == 23 - Log2(deg)

\* e8 / 10^8 rounded to the nearest multiple of 2^-k  (10^8 = 2^8 * 625 * 625,
\* the product is split so that every intermediate stays below 2^31)
RoundFrac(e8, k) ==
  LET P   == Pow2(k - 8)
      A   == (e8 \div 10000) * P
      B   == (e8 % 10000) * P
      N   == A * 16 + (B \div 625)
      rem == (N % 625) * 625 + (B % 625)
  IN  IF 2 * rem > 390625 THEN (N \div 625) + 1 ELSE N \div 625

Dec(neg, deg, e8) == [num |-> TRUE, neg |-> neg, deg |-> deg, e8 |-> e8]

NotANumber == [num |-> FALSE, neg |-> FALSE, deg |-> 0, e8 |-> 0]

\* sscanf(text, "%f", &x): the nearest float; on a matching failure x keeps its value
sscanf_f(t, old) ==
  IF ~t.num THEN old
  ELSE LET k   == FracBits(t.deg)
           mag == t.deg * U + RoundFrac(t.e8, k) * Pow2(21 - k)
       IN  IF t.neg THEN -mag ELSE mag

\* floor and remainder of (f / 2^21) * 10^8 for 0 <= f < 2^21
E8Floor(f) ==
  LET Y == (f % 8192) * 625
  IN  (f \div 8192) * 390625 + (Y \div 8192) * 625 + (((Y % 8192) * 625) \div 8192)

E8Rem(f) == ((((f % 8192) * 625) % 8192) * 625) % 8192

\* sign of m - c for a magnitude m (units of 2^-21) and a decimal magnitude c
MagCmp(m, c) ==
  LET d == m \div U
      f == m % U
  IN  IF d # c.deg THEN (IF d > c.deg THEN 1 ELSE -1)
      ELSE IF E8Floor(f) # c.e8 THEN (IF E8Floor(f) > c.e8 THEN 1 ELSE -1)
      ELSE IF E8Rem(f) > 0 THEN 1 ELSE 0

\* sign of (double)x - c, x a float and c a double field of the Gtif box
Cmp(x, c) ==
  IF x >= 0 /\ ~c.neg THEN MagCmp(x, c)
  ELSE IF x < 0 /\ c.neg THEN 0 - MagCmp(0 - x, c)
  ELSE IF x >= 0 THEN 1 ELSE -1

\* a whole-degree box corner in units of 2^-21
ToUnits(c) == IF c.neg THEN 0 - c.deg * U ELSE c.deg * U

\* mutant of CastInt: rounds to the nearest integer
CastInt_Round(v) == (v + (U \div 2)) \div U

\* (int)(v / 2^21): conversion of a double to int truncates toward zero
CastInt(v) == IF v >= 0 THEN v \div U ELSE 0 - ((0 - v) \div U)

(***************************************************************************)
(* The box main() assumes, in decimal degrees.                             *)
(***************************************************************************)
UL0 == Dec(FALSE, 108, 0)
UL1 == Dec(TRUE, 8, 0)
LL0 == Dec(FALSE, 108, 0)
LR0 == Dec(FALSE, 157, 99999999)
LR1 == Dec(TRUE, 48, 0)

\* the double fields UL[], LL[], LR[] keep the constants as written
StoreBox(c) == c

(***************************************************************************)
(* Inputs.                                                                 *)
(***************************************************************************)
LatTexts ==
  { NotANumber,
    Dec(TRUE, 7, 99900000), Dec(TRUE, 8, 0), Dec(TRUE, 8, 50000000),
    Dec(TRUE, 9, 0), Dec(TRUE, 30, 25000000), Dec(TRUE, 47, 99990000),
    Dec(TRUE, 48, 0), Dec(TRUE, 48, 100000) }

LongTexts ==
  { NotANumber,
    Dec(FALSE, 107, 99900000), Dec(FALSE, 108, 0), Dec(FALSE, 108, 50000000),
    Dec(FALSE, 109, 0), Dec(FALSE, 130, 75000000), Dec(FALSE, 157, 99990000),
    Dec(FALSE, 157, 99999999), Dec(FALSE, 158, 0) }

\* BitsPerSample of the file; 0 stands for a file without the tag
FileBits == {0, 8, 12, 16, 32}

FileWidths == {20, 49, 50}

FileHeights == {20, 39, 40}

JpgHeights == {20, 40}

\* what an unassigned int of the Gtif on the stack may hold
Garbage == {0, 40, 1000}

\* sample values a scanline may hold
Samples == {0, 1234}

\* largest windowSize setupGtif can derive from the files considered
MaxWindow ==
  LET S == { (h \div j) + 1 : h \in FileHeights, j \in JpgHeights }
  IN  CHOOSE m \in S : \A s \in S : s <= m

Running == -1

SIGSEGV == 139

VARIABLES pc, argv, Lat, Long, jpgHeight, file, gtif, heap, i,
          LineNo, PixelNo, ElevVal, setupRet, log, exitCode, calls, closeArg

vars == <<pc, argv, Lat, Long, jpgHeight, file, gtif, heap, i,
          LineNo, PixelNo, ElevVal, setupRet, log, exitCode, calls, closeArg>>

Ev(op, arg) == [op |-> op, arg |-> arg]

NoFile == [bps |-> 0, w |-> 0, h |-> 0, scale |-> FALSE, tie |-> FALSE]

\* Gtif DEM_Gtif; -- no field is assigned yet
NoGtif ==
  [init |-> FALSE, tif |-> "uninit", bitsPerSample |-> 0, width |-> 0, height |-> 0,
   windowSize |-> 0, scanlineSize |-> 0, scanlines |-> "uninit",
   slot |-> [k \in 1..MaxWindow |-> "uninit"]]

NoHeap ==
  [line |-> [k \in 1..MaxWindow |-> "none"], lineFrees |-> [k \in 1..MaxWindow |-> 0],
   pool |-> "none", poolFrees |-> 0, tmp |-> "none", handle |-> "none", closes |-> 0]

Init ==
  /\ pc = "main"
  /\ argv \in [lat : LatTexts, long : LongTexts]
  /\ Lat = 0
  /\ Long = 0
  /\ jpgHeight \in JpgHeights
  /\ file = NoFile
  /\ gtif = NoGtif
  /\ heap = NoHeap
  /\ i = 0
  /\ LineNo = 0
  /\ PixelNo = 0
  /\ ElevVal = 0
  /\ setupRet = "none"
  /\ log = << >>
  /\ exitCode = Running
  /\ calls = 0
  /\ closeArg = "none"

Exit(code) ==
  /\ exitCode' = code
  /\ pc' = "done"

(***************************************************************************)
(* main(), lines 20-42: copy the arguments, convert them, call setupGtif.  *)
(***************************************************************************)
ParseArgs ==
  /\ pc = "main"
  /\ Lat' = sscanf_f(argv.lat, Lat)
  /\ Long' = sscanf_f(argv.long, Long)
  /\ log' = Append(log, Ev("args", 0))
  /\ pc' = "setup_open"
  /\ UNCHANGED <<argv, jpgHeight, file, gtif, heap, i, LineNo, PixelNo, ElevVal,
                 setupRet, exitCode, calls, closeArg>>

(***************************************************************************)
(* setupGtif(), lines 147-159: TIFFOpen.  On failure the function returns  *)
(* FALSE with tif NULL and every other field of the Gtif unassigned.       *)
(***************************************************************************)
Setup_Open ==
  /\ pc = "setup_open"
  /\ \/ /\ \E b \in FileBits, w \in FileWidths, h \in FileHeights, sc \in BOOLEAN, tp \in BOOLEAN :
             file' = [bps |-> b, w |-> w, h |-> h, scale |-> sc, tie |-> tp]
        /\ gtif' = [gtif EXCEPT !.tif = "ptr"]
        /\ heap' = [heap EXCEPT !.handle = "open"]
        /\ pc' = "setup_meta"
        /\ UNCHANGED <<setupRet, log>>
     \/ /\ \E gw \in Garbage, gh \in Garbage :
             gtif' = [gtif EXCEPT !.tif = "null", !.width = gw, !.height = gh]
        /\ setupRet' = "false"
        /\ log' = Append(log, Ev("setup_fail", 0))
        /\ pc' = "setup_ret"
        /\ UNCHANGED <<file, heap>>
  /\ UNCHANGED <<argv, Lat, Long, jpgHeight, i, LineNo, PixelNo, ElevVal,
                 exitCode, calls, closeArg>>

\* mutant of NormalizeBps: the lower end of the range is included
NormalizeBps_From8(b) == IF b >= 8 /\ b <= 16 THEN 16 ELSE b

\* lines 168-169
NormalizeBps(b) == IF b > 8 /\ b <= 16 THEN 16 ELSE b

\* line 187: windowSize = (int)(scaleY+1), scaleY = (double)height/jpgHeight (line 178)
WindowSize(h, jh) == (h \div jh) + 1

\* line 188
ScanlineSize(w, b) == w * (b \div 8)

(***************************************************************************)
(* setupGtif(), lines 161-197: read the tags and derive the sizes.         *)
(***************************************************************************)
Setup_ReadMeta ==
  /\ pc = "setup_meta"
  /\ IF file.bps = 0
       THEN /\ \E gw \in Garbage, gh \in Garbage :
                 gtif' = [gtif EXCEPT !.width = gw, !.height = gh]
            /\ setupRet' = "false"
            /\ log' = Append(log, Ev("setup_fail", 0))
            /\ pc' = "setup_ret"
            /\ UNCHANGED exitCode
       ELSE /\ gtif' = [gtif EXCEPT !.bitsPerSample = NormalizeBps(file.bps),
                                     !.width = file.w,
                                     !.height = file.h,
                                     !.windowSize = WindowSize(file.h, jpgHeight),
                                     !.scanlineSize = ScanlineSize(file.w, NormalizeBps(file.bps)),
                                     !.init = TRUE]
            /\ IF ~file.scale \/ ~file.tie
                 THEN Exit(11)
                 ELSE pc' = "setup_pool" /\ UNCHANGED exitCode
            /\ UNCHANGED <<setupRet, log>>
  /\ UNCHANGED <<argv, Lat, Long, jpgHeight, file, heap, i, LineNo, PixelNo, ElevVal,
                 calls, closeArg>>

(***************************************************************************)
(* setupGtif(), line 201: the table of scanline pointers.  The result of   *)
(* malloc is not tested; the loop stores through it.                       *)
(***************************************************************************)
Setup_AllocPool ==
  /\ pc = "setup_pool"
  /\ \/ /\ heap' = [heap EXCEPT !.pool = "alloc"]
        /\ gtif' = [gtif EXCEPT !.scanlines = "ptr"]
        /\ i' = 0
        /\ pc' = "setup_line"
        /\ UNCHANGED exitCode
     \/ /\ gtif' = [gtif EXCEPT !.scanlines = "null"]
        /\ Exit(SIGSEGV)
        /\ UNCHANGED <<heap, i>>
  /\ UNCHANGED <<argv, Lat, Long, jpgHeight, file, LineNo, PixelNo, ElevVal,
                 setupRet, log, calls, closeArg>>

(***************************************************************************)
(* setupGtif(), lines 202-210: one iteration of the allocation loop.       *)
(***************************************************************************)
Setup_AllocLine ==
  /\ pc = "setup_line"
  /\ i < gtif.windowSize
  /\ \/ /\ heap' = [heap EXCEPT !.line[i + 1] = "alloc"]
        /\ gtif' = [gtif EXCEPT !.slot[i + 1] = "ptr"]
        /\ i' = i + 1
        /\ UNCHANGED <<pc, exitCode>>
     \/ /\ gtif' = [gtif EXCEPT !.slot[i + 1] = "null"]
        /\ Exit(13)
        /\ UNCHANGED <<heap, i>>
  /\ UNCHANGED <<argv, Lat, Long, jpgHeight, file, LineNo, PixelNo, ElevVal,
                 setupRet, log, calls, closeArg>>

(***************************************************************************)
(* setupGtif(), lines 212-229: the depth test, the verbose summary, TRUE.  *)
(***************************************************************************)
Setup_CheckBps ==
  /\ pc = "setup_line"
  /\ ~(i < gtif.windowSize)
  /\ IF gtif.bitsPerSample # 16
       THEN /\ Exit(11)
            /\ UNCHANGED <<setupRet, log>>
       ELSE /\ setupRet' = "true"
            /\ log' = log \o << Ev("meta", 0), Ev("setup_ok", 0) >>
            /\ pc' = "setup_ret"
            /\ UNCHANGED exitCode
  /\ UNCHANGED <<argv, Lat, Long, jpgHeight, file, gtif, heap, i, LineNo, PixelNo,
                 ElevVal, calls, closeArg>>

\* mutant of LatOutOfRange: the bounds themselves are rejected
LatOutOfRange_Closed(lat) == Cmp(lat, StoreBox(UL1)) >= 0 \/ Cmp(lat, StoreBox(LR1)) <= 0

\* line 65
LatOutOfRange(lat) == Cmp(lat, StoreBox(UL1)) > 0 \/ Cmp(lat, StoreBox(LR1)) < 0

\* line 69
LongOutOfRange(long) == Cmp(long, StoreBox(UL0)) < 0 \/ Cmp(long, StoreBox(LR0)) > 0

(***************************************************************************)
(* main(), lines 42-72: the value setupGtif returned is dropped; the box   *)
(* is assigned and Lat / Long are tested against it.                       *)
(***************************************************************************)
Main_Box ==
  /\ pc = "setup_ret"
  /\ IF LatOutOfRange(Lat) \/ LongOutOfRange(Long)
       THEN /\ Exit(1)
            /\ log' = Append(log, Ev("geocheck", 1))
       ELSE /\ pc' = "map"
            /\ log' = Append(log, Ev("geocheck", 0))
            /\ UNCHANGED exitCode
  /\ UNCHANGED <<argv, Lat, Long, jpgHeight, file, gtif, heap, i, LineNo, PixelNo,
                 ElevVal, setupRet, calls, closeArg>>

\* line 80
LineNoOf(lat) == CastInt(0 - (lat - ToUnits(StoreBox(UL1))))

\* line 81
PixelNoOf(long) == CastInt(long - ToUnits(StoreBox(LL0)))

\* mutant of PixelOutOfRange: an index equal to the size is rejected
PixelOutOfRange_Strict(n, size) == n < 0 \/ n >= size

\* lines 83 and 87
PixelOutOfRange(n, size) == n < 0 \/ n > size

(***************************************************************************)
(* main(), lines 75-97: line and pixel number, their range tests, and the  *)
(* verbose timing line.                                                    *)
(***************************************************************************)
Main_Map ==
  /\ pc = "map"
  /\ LineNo' = LineNoOf(Lat)
  /\ PixelNo' = PixelNoOf(Long)
  /\ IF PixelOutOfRange(LineNo', gtif.height) \/ PixelOutOfRange(PixelNo', gtif.width)
       THEN /\ Exit(1)
            /\ log' = log \o << Ev("map", 0), Ev("pixcheck", 1) >>
       ELSE /\ pc' = "read"
            /\ log' = log \o << Ev("map", 0), Ev("pixcheck", 0), Ev("time", 0) >>
            /\ UNCHANGED exitCode
  /\ UNCHANGED <<argv, Lat, Long, jpgHeight, file, gtif, heap, i, ElevVal, setupRet,
                 calls, closeArg>>

(***************************************************************************)
(* readDEMvalue(), lines 115-143.  The outcomes, in the order of the       *)
(* disjuncts: a NULL tif is dereferenced by TIFFReadScanline; the result   *)
(* of malloc is not tested, so the scanline is stored through NULL, or,    *)
(* with an unassigned scanlineSize, past the end of the buffer;            *)
(* TIFFReadScanline refuses a row at or beyond the length of the image and *)
(* may fail on I/O, then exit(11) with the buffer still allocated; the     *)
(* scanline is read and tmpBuf[PixelNo] returned.  A PixelNo equal to the  *)
(* width reads two bytes past the buffer, which like any sample is drawn   *)
(* from Samples.                                                           *)
(***************************************************************************)
ReadDEMvalue ==
  /\ pc = "read"
  /\ \/ /\ gtif.tif = "null"
        /\ Exit(SIGSEGV)
        /\ log' = Append(log, Ev("readcall", 0))
        /\ UNCHANGED <<heap, ElevVal>>
     \/ /\ gtif.tif = "ptr"
        /\ LineNo < file.h
        /\ Exit(SIGSEGV)
        /\ log' = Append(log, Ev("readcall", 0))
        /\ \/ UNCHANGED heap
           \/ ~gtif.init /\ heap' = [heap EXCEPT !.tmp = "alloc"]
        /\ UNCHANGED ElevVal
     \/ /\ gtif.tif = "ptr"
        /\ Exit(11)
        /\ log' = Append(log, Ev("readcall", 0))
        /\ heap' = [heap EXCEPT !.tmp = "alloc"]
        /\ UNCHANGED ElevVal
     \/ /\ gtif.tif = "ptr"
        /\ LineNo < file.h
        /\ \E v \in Samples : ElevVal' = v
        /\ heap' = [heap EXCEPT !.tmp = "freed"]
        /\ log' = log \o << Ev("readcall", 0), Ev("read", 0) >>
        /\ pc' = "print"
        /\ UNCHANGED exitCode
  /\ UNCHANGED <<argv, Lat, Long, jpgHeight, file, gtif, i, LineNo, PixelNo, setupRet,
                 calls, closeArg>>

\* mutant of Main_Print: the result line is not written
Main_Print_Silent ==
  /\ pc = "print"
  /\ pc' = "close"
  /\ UNCHANGED <<argv, Lat, Long, jpgHeight, file, gtif, heap, i, LineNo, PixelNo,
                 ElevVal, setupRet, log, exitCode, calls, closeArg>>

(***************************************************************************)
(* main(), line 101: the result line.                                      *)
(***************************************************************************)
Main_Print ==
  /\ pc = "print"
  /\ log' = Append(log, Ev("print", 0))
  /\ pc' = "close"
  /\ UNCHANGED <<argv, Lat, Long, jpgHeight, file, gtif, heap, i, LineNo, PixelNo,
                 ElevVal, setupRet, exitCode, calls, closeArg>>

\* mutant of FreedSlots: the loop stops one buffer short
FreedSlots_Short(g) == { k \in 1..(g.windowSize - 1) : g.slot[k] # "null" }

\* lines 239-243: the buffers closeGtif frees, in loop order
FreedSlots(g) == { k \in 1..g.windowSize : g.slot[k] # "null" }

FreeEvents(g) ==
  LET all == [k \in 1..g.windowSize |-> Ev("free", k)]
      Keep(e) == e.arg \in FreedSlots(g)
  IN  SelectSeq(all, Keep)

(***************************************************************************)
(* closeGtif(), lines 233-249, for a non-NULL argument.  The function      *)
(* leaves every pointer as it was.  With an unassigned windowSize and      *)
(* scanlines, or with scanlines already freed, the loads and frees are     *)
(* undefined: the call crashes or runs through.                            *)
(***************************************************************************)
CloseSession(nextpc) ==
  \/ /\ ~gtif.init \/ heap.pool = "freed"
     /\ Exit(SIGSEGV)
     /\ UNCHANGED <<heap, log>>
  \/ /\ ~gtif.init
     /\ heap' = [heap EXCEPT !.handle = IF gtif.tif = "ptr" THEN "closed" ELSE @,
                             !.closes = IF gtif.tif = "ptr" THEN @ + 1 ELSE @]
     /\ log' = IF gtif.tif = "ptr" THEN Append(log, Ev("tiffclose", 0)) ELSE log
     /\ pc' = nextpc
     /\ UNCHANGED exitCode
  \/ /\ gtif.init
     /\ heap' = [heap EXCEPT
                   !.line = [k \in 1..MaxWindow |->
                               IF k \in FreedSlots(gtif) THEN "freed" ELSE @[k]],
                   !.lineFrees = [k \in 1..MaxWindow |->
                               IF k \in FreedSlots(gtif) THEN @[k] + 1 ELSE @[k]],
                   !.pool = "freed",
                   !.poolFrees = @ + 1,
                   !.handle = IF gtif.tif = "ptr" THEN "closed" ELSE @,
                   !.closes = IF gtif.tif = "ptr" THEN @ + 1 ELSE @]
     /\ log' = log \o FreeEvents(gtif) \o << Ev("freepool", 0) >>
                   \o (IF gtif.tif = "ptr" THEN << Ev("tiffclose", 0) >> ELSE << >>)
     /\ pc' = nextpc
     /\ UNCHANGED exitCode

\* closeGtif(), lines 233-249: a NULL argument returns at once
CloseGtif(arg, nextpc) ==
  IF arg = "null"
    THEN pc' = nextpc /\ UNCHANGED <<heap, log, exitCode>>
    ELSE CloseSession(nextpc)

(***************************************************************************)
(* main(), line 105.                                                       *)
(***************************************************************************)
Main_Close ==
  /\ pc = "close"
  /\ CloseGtif("session", "exit")
  /\ closeArg' = "session"
  /\ UNCHANGED <<argv, Lat, Long, jpgHeight, file, gtif, i, LineNo, PixelNo, ElevVal,
                 setupRet, calls>>

(***************************************************************************)
(* main(), line 110.                                                       *)
(***************************************************************************)
Main_Exit ==
  /\ pc = "exit"
  /\ Exit(0)
  /\ UNCHANGED <<argv, Lat, Long, jpgHeight, file, gtif, heap, i, LineNo, PixelNo,
                 ElevVal, setupRet, log, calls, closeArg>>

Next ==
  \/ ParseArgs
  \/ Setup_Open
  \/ Setup_ReadMeta
  \/ Setup_AllocPool
  \/ Setup_AllocLine
  \/ Setup_CheckBps
  \/ Main_Box
  \/ Main_Map
  \/ ReadDEMvalue
  \/ Main_Print
  \/ Main_Close
  \/ Main_Exit

Spec == Init /\ [][Next]_vars

(***************************************************************************)
(* closeGtif() as a library operation: a caller that has run setupGtif     *)
(* calls closeGtif any number of times, with NULL or, when setupGtif       *)
(* returned TRUE, with the session it set up.                              *)
(***************************************************************************)
InitApi ==
  /\ pc = "setup_open"
  /\ argv = [lat |-> NotANumber, long |-> NotANumber]
  /\ Lat = 0
  /\ Long = 0
  /\ jpgHeight \in JpgHeights
  /\ file = NoFile
  /\ gtif = NoGtif
  /\ heap = NoHeap
  /\ i = 0
  /\ LineNo = 0
  /\ PixelNo = 0
  /\ ElevVal = 0
  /\ setupRet = "none"
  /\ log = << >>
  /\ exitCode = Running
  /\ calls = 0
  /\ closeArg = "none"

Api_CloseNull ==
  /\ pc \in {"setup_ret", "api"}
  /\ calls < MaxCloseCalls
  /\ CloseGtif("null", "api")
  /\ closeArg' = "null"
  /\ calls' = calls + 1
  /\ UNCHANGED <<argv, Lat, Long, jpgHeight, file, gtif, i, LineNo, PixelNo, ElevVal,
                 setupRet>>

Api_CloseSession ==
  /\ pc \in {"setup_ret", "api"}
  /\ setupRet = "true"
  /\ calls < MaxCloseCalls
  /\ CloseGtif("session", "api")
  /\ closeArg' = "session"
  /\ calls' = calls + 1
  /\ UNCHANGED <<argv, Lat, Long, jpgHeight, file, gtif, i, LineNo, PixelNo, ElevVal,
                 setupRet>>

NextApi ==
  \/ Setup_Open
  \/ Setup_ReadMeta
  \/ Setup_AllocPool
  \/ Setup_AllocLine
  \/ Setup_CheckBps
  \/ Api_CloseNull
  \/ Api_CloseSession

SpecApi == InitApi /\ [][NextApi]_vars

(***************************************************************************)
(* Properties.                                                             *)
(***************************************************************************)
Happened(op) == \E k \in 1..Len(log) : log[k].op = op

Logged(op, arg) == \E k \in 1..Len(log) : log[k] = Ev(op, arg)

\* position of the first event op(arg) of the log, 0 when there is none
Idx(op, arg) ==
  IF Logged(op, arg)
    THEN CHOOSE k \in 1..Len(log) :
           log[k] = Ev(op, arg) /\ \A j \in 1..(k - 1) : log[j] # Ev(op, arg)
    ELSE 0

Terminated == pc = "done"

\* C1: when the file cannot be opened or bits-per-sample cannot be read, the
\* run ends with a non-zero exit status before any range check, coordinate
\* mapping or scanline read.
C1_SetupFailureAborts ==
  setupRet = "false" =>
    /\ ~Happened("geocheck") /\ ~Happened("map") /\ ~Happened("pixcheck")
    /\ ~Happened("readcall")
    /\ pc # "setup_ret"

C2_OnBoundAccepted ==
  /\ setupRet = "true"
  /\ Logged("geocheck", 0)
  /\ Cmp(Lat, UL1) = 0
  /\ Cmp(Long, UL0) = 0

\* the lower-right latitude passes the geographic check too
C2_OnLowerBoundAccepted ==
  /\ setupRet = "true"
  /\ Logged("geocheck", 0)
  /\ Cmp(Lat, LR1) = 0

\* no float equals the lower-right longitude 157.99999999; the text
\* 157.99999999 is stored as 158.0
C2_NoFloatOnLR0 ==
  /\ Cmp(Long, LR0) # 0
  /\ (pc # "main" /\ argv.long = LR0) => Long = 158 * U

AllStepsSucceeded ==
  /\ setupRet = "true"
  /\ Logged("geocheck", 0)
  /\ Logged("pixcheck", 0)
  /\ Happened("read")

\* C3: the result line is printed, and the process exits with code 0, only on
\* runs in which every preceding step succeeded.
C3_SuccessOnlyAfterEveryStep ==
  (Happened("print") \/ exitCode = 0) => AllStepsSucceeded

\* C4: a raster whose bits-per-sample is not in (8, 16] and so does not
\* normalise to 16 never leaves setup: it ends with a non-zero exit status and
\* no scanline read is performed.
C4_UnsupportedDepth ==
  (heap.handle # "none" /\ file.bps # 0 /\ ~(file.bps > 8 /\ file.bps <= 16)) =>
    /\ ~Happened("readcall")
    /\ setupRet = "none"
    /\ pc \in {"setup_meta", "setup_pool", "setup_line", "done"}
    /\ Terminated => exitCode \notin {0, Running}

C4_Witness ==
  /\ Terminated
  /\ exitCode = 11
  /\ file.bps = 8
  /\ file.scale /\ file.tie
  /\ i = gtif.windowSize
  /\ heap.pool = "alloc"

\* a depth in (8, 16] other than 16 is accepted as 16
C4_CoercedAccepted ==
  /\ file.bps = 12
  /\ setupRet = "true"
  /\ gtif.bitsPerSample = 16

StrictlyInside ==
  /\ Cmp(Lat, LR1) > 0 /\ Cmp(Lat, UL1) < 0
  /\ Cmp(Long, UL0) > 0 /\ Cmp(Long, LR0) < 0

Mapped ==
  /\ Logged("pixcheck", 0)
  /\ 0 <= LineNo /\ LineNo <= gtif.height
  /\ 0 <= PixelNo /\ PixelNo <= gtif.width

\* C5 as stated: for lat and long strictly inside the box and every raster
\* setup accepts, the mapping yields 0 <= row <= height and 0 <= column <= width
\* and no out-of-range error.
C5_InsideAlwaysMapped ==
  (setupRet = "true" /\ Happened("map") /\ StrictlyInside) => Mapped

\* C5 amended: the same for every accepted raster of height at least 39 and
\* width at least 49, the largest row and column a point strictly inside the
\* box maps to.
C5_InsideMappedOnLargeRaster ==
  (setupRet = "true" /\ Happened("map") /\ StrictlyInside
     /\ gtif.height >= 39 /\ gtif.width >= 49) => Mapped

C5_Witness ==
  /\ setupRet = "true"
  /\ Happened("map")
  /\ StrictlyInside
  /\ gtif.height = 39
  /\ LineNo = 39
  /\ Logged("pixcheck", 0)

\* C6: for every accepted lat / long the row is -(lat - upperLeftLat) and the
\* column is long - lowerLeftLong, each truncated toward zero; (-8, 108) maps
\* to (0, 0) and (-9, 109) to (1, 1).
C6_Truncation ==
  Happened("map") =>
    /\ LineNo >= 0
    /\ LineNo * U <= (0 - 8 * U) - Lat
    /\ (0 - 8 * U) - Lat < (LineNo + 1) * U
    /\ PixelNo >= 0
    /\ PixelNo * U <= Long - 108 * U
    /\ Long - 108 * U < (PixelNo + 1) * U
    /\ (argv.lat = Dec(TRUE, 8, 0) /\ argv.long = Dec(FALSE, 108, 0))
         => (LineNo = 0 /\ PixelNo = 0)
    /\ (argv.lat = Dec(TRUE, 9, 0) /\ argv.long = Dec(FALSE, 109, 0))
         => (LineNo = 1 /\ PixelNo = 1)

C6_Witness ==
  /\ Happened("map")
  /\ argv.lat = Dec(TRUE, 8, 50000000)
  /\ argv.long = Dec(FALSE, 130, 75000000)
  /\ LineNo = 0
  /\ PixelNo = 22

\* the two worked examples are reached
C6_Examples ==
  /\ Happened("map")
  /\ argv.lat = Dec(TRUE, 9, 0) /\ argv.long = Dec(FALSE, 109, 0)
  /\ LineNo = 1 /\ PixelNo = 1

\* C7: closeGtif on a NULL session or on a session already closed is a no-op:
\* no buffer is freed a second time, the pool is not freed again, the handle is
\* not closed again, and the call does not crash.
C7_CloseIsIdempotent ==
  /\ \A k \in 1..MaxWindow : heap.lineFrees[k] <= 1
  /\ heap.poolFrees <= 1
  /\ heap.closes <= 1
  /\ calls >= 1 => exitCode # SIGSEGV

\* the NULL half of C7: a call with NULL changes nothing but the caller's position
C7_NullIsNoOp ==
  [][(calls' = calls + 1 /\ closeArg' = "null") =>
       (heap' = heap /\ gtif' = gtif /\ log' = log /\ exitCode' = exitCode)]_vars

\* C8: teardown of a session set up with windowSize buffers frees each of them
\* exactly once, then the pool, then closes the open handle; afterwards no
\* scanline buffer is allocated and none was freed twice.
C8_Teardown ==
  (setupRet = "true" /\ closeArg = "session") =>
    /\ \A k \in 1..gtif.windowSize :
         /\ heap.lineFrees[k] = 1
         /\ heap.line[k] = "freed"
         /\ 0 < Idx("free", k) /\ Idx("free", k) < Idx("freepool", 0)
    /\ \A k \in 1..MaxWindow : heap.line[k] # "alloc" /\ heap.lineFrees[k] <= 1
    /\ heap.tmp # "alloc"
    /\ heap.pool = "freed" /\ heap.poolFrees = 1
    /\ Idx("freepool", 0) < Idx("tiffclose", 0)
    /\ heap.handle = "closed" /\ heap.closes = 1

C8_Witness ==
  /\ setupRet = "true"
  /\ Terminated
  /\ exitCode = 0
  /\ gtif.windowSize = 3
  /\ heap.lineFrees[3] = 1

C10_ReadInsideRaster ==
  (setupRet = "true" /\ Happened("readcall")) =>
    /\ 0 <= LineNo /\ LineNo < gtif.height
    /\ 0 <= PixelNo /\ PixelNo < gtif.width

\* a column equal to the width is read and reported with exit code 0
C10_ColumnPastBuffer ==
  ~(setupRet = "true" /\ exitCode = 0 /\ PixelNo = gtif.width)

====
